---- MODULE Spec2Model ----
(***************************************************************************)
(* StorageManager (src/src/storage.ts, lines 93-333): an in-memory Map     *)
(* with a capacity policy, a periodic expiration sweep and timestamps.     *)
(*                                                                         *)
(* The clock unit of the model is 24 h: the default expireMs and the       *)
(* default cleanupIntervalMs (24 * 60 * 60 * 1000 ms) are one unit.        *)
(* The Map is a sequence of <<key, data>> entries in insertion order,      *)
(* which is the order Map.entries() iterates in.                           *)
(***************************************************************************)
EXTENDS Integers, Sequences, FiniteSets, TLC

VARIABLES
    storage,         \* _storage: the Map, in insertion order
    maxItems,        \* _maxItems
    expireMs,        \* _expireMs
    cleanupInterval, \* _cleanupInterval: TRUE while the interval timer is set
    nextSweepAt,     \* the clock reading from which the timer's callback is due
    now,             \* the clock Date.now() reads
    last,            \* history: the operation that led to this state
    adds             \* history: the successful adds since construction

vars == <<storage, maxItems, expireMs, cleanupInterval, nextSweepAt, now, last, adds>>

----------------------------------------------------------------------------
(* Bounds of the model *)

\* The clock stops advancing at MaxTime.
MaxTime == 2

\* The longest run of adds the history variable adds records.
ScenarioLen == 3

----------------------------------------------------------------------------
(* JavaScript values *)

\* The time value of an Invalid Date.
NaN == -1

\* The largest time value a Date holds: 8.64e15 ms, that is 100,000,000 days.
MaxTimeValue == 100000000

\* The time value the text '275760-12-31' names: 109 days after
\* 275760-09-13, the day of MaxTimeValue.
SentinelTimeValue == 100000109

\* Number.POSITIVE_INFINITY, above every size the Map reaches.
Infinity == 1000000

\* maxItems ?? Infinity, for the stores the model constructs.
MaxItemsChoices == {1, 2, Infinity}

\* expireMs ?? 24h: the default, and a store with twice the default.
ExpireMsChoices == {1, 2}

\* cleanupIntervalMs ?? 24h: the default.
cleanupIntervalMs == 1

\* keyLength ?? 8: the default.
keyLength == 8

\* maxRetries of getUniqueKey.
maxRetries == 15

\* The value undefined.
undefined == "<undefined>"

\* The strings passed as key: two keys that generateKey can produce.
StringKeys == {"0000000a", "0000000b"}

\* The strings passed as key in the scenario of three adds.
ScenarioKeys == {"a", "b", "c"}

\* The arguments passed as key: the strings of S, and a number.
KeyArgs(S) ==
    {[type |-> "string", repr |-> s] : s \in S}
        \cup {[type |-> "number", repr |-> "7"]}

\* The arguments passed as value: a number and a plain object.
Values ==
    {[type |-> "number", payload |-> 1],
     [type |-> "object", payload |-> 1]}

\* typeof
TypeOf(v) == IF v.type \in {"object", "array", "null"} THEN "object" ELSE v.type

\* TimeClip: a time value beyond the range of Date is NaN.
TimeClip(t) == IF t > MaxTimeValue \/ t < -MaxTimeValue THEN NaN ELSE t

\* a < b and a > b on Dates: false when either is an Invalid Date.
DateLT(a, b) == a # NaN /\ b # NaN /\ a < b
DateGT(a, b) == a # NaN /\ b # NaN /\ a > b

\* The digits of Buffer.toString('hex').
HexDigits ==
    <<"0", "1", "2", "3", "4", "5", "6", "7", "8", "9", "a", "b", "c", "d", "e", "f">>

\* Buffer.toString('hex'): two digits for each byte.
RECURSIVE toStringHex(_)
toStringHex(buf) ==
    IF buf = <<>>
    THEN ""
    ELSE HexDigits[(Head(buf) \div 16) + 1] \o HexDigits[(Head(buf) % 16) + 1]
             \o toStringHex(Tail(buf))

\* n times x.
RECURSIVE Repeat(_, _)
Repeat(x, n) == IF n = 0 THEN <<>> ELSE <<x>> \o Repeat(x, n - 1)

\* crypto.randomBytes(size): the buffers of size bytes the model draws, with
\* one of three values in the last byte and 0 in the others.
randomBytes(size) ==
    {Repeat(0, size - 1) \o <<b>> : b \in {10, 11, 12}}

\* The streams of random buffers one call of getUniqueKey may draw from:
\* one buffer n times, then another, for n = 0, 1, maxRetries and
\* maxRetries + 1.
RandomStreams ==
    {Repeat(b1, n) \o Repeat(b2, maxRetries + 1 - n) :
        b1 \in randomBytes(keyLength \div 2),
        b2 \in randomBytes(keyLength \div 2),
        n \in {0, 1, maxRetries, maxRetries + 1}}

----------------------------------------------------------------------------
(* Map *)

MapHas(st, k) == \E i \in 1..Len(st) : st[i].key = k

MapIndex(st, k) == CHOOSE i \in 1..Len(st) : st[i].key = k

\* What get returns for a key that is absent: undefined, as a value of the
\* shape of the stored data.
undefinedData ==
    [value |-> [type |-> "undefined", payload |-> 0], wrapped |-> FALSE,
     expireAt |-> NaN, updateAt |-> NaN]

MapGet(st, k) == IF MapHas(st, k) THEN st[MapIndex(st, k)].data ELSE undefinedData

\* set keeps the position of a key that is present and appends a new one.
MapSet(st, k, d) ==
    IF MapHas(st, k)
    THEN [st EXCEPT ![MapIndex(st, k)] = [key |-> k, data |-> d]]
    ELSE Append(st, [key |-> k, data |-> d])

MapDelete(st, k) == SelectSeq(st, LAMBDA e : e.key # k)

MapKeys(st) == {st[i].key : i \in 1..Len(st)}

----------------------------------------------------------------------------
(* The private methods *)

\* cleanup (lines 138-145): deletes the entries the test data.expireAt >
\* currentTime selects.
cleanup(st, currentTime) ==
    SelectSeq(st, LAMBDA e : ~DateGT(e.data.expireAt, currentTime))

\* new Date('275760-12-31') (line 154): the text names a day past the last
\* day a Date holds, so the Date is invalid.
lruKeyExpireAtInit == TimeClip(SentinelTimeValue)

\* The loop of lruKey (lines 155-160), from entry i on.
RECURSIVE lruScan(_, _, _, _)
lruScan(st, i, key, lruKeyExpireAt) ==
    IF i > Len(st)
    THEN key
    ELSE IF DateLT(st[i].data.expireAt, lruKeyExpireAt)
         THEN lruScan(st, i + 1, st[i].key, st[i].data.expireAt)
         ELSE lruScan(st, i + 1, key, lruKeyExpireAt)

\* lruKey (lines 152-162)
lruKey(st) == lruScan(st, 1, undefined, lruKeyExpireAtInit)

\* buildData without the time to live: expireAt is the time of the write.
buildData_NoExpireMs(value, t) ==
    [value    |-> value,
     wrapped  |-> ~(TypeOf(value) = "object" /\ value.type # "null"
                        /\ value.type # "array"),
     expireAt |-> t,
     updateAt |-> t]

\* buildData taking expireAt from a later reading of the clock than updateAt.
buildData_TwoReadings(value, t) ==
    [value    |-> value,
     wrapped  |-> ~(TypeOf(value) = "object" /\ value.type # "null"
                        /\ value.type # "array"),
     expireAt |-> t + cleanupIntervalMs + expireMs,
     updateAt |-> t]

\* buildData (lines 170-183): a plain object gets the timestamps as sibling
\* fields, any other value is wrapped under the field value.
buildData(value, t) ==
    [value    |-> value,
     wrapped  |-> ~(TypeOf(value) = "object" /\ value.type # "null"
                        /\ value.type # "array"),
     expireAt |-> t + expireMs,
     updateAt |-> t]

\* validateKey accepting every key.
validateKey_NeverThrows(key) == FALSE

\* validateKey (lines 190-195): TRUE when it throws.
validateKey(key) == TypeOf(key) # "string"

\* What handleMaxCapacity leaves when it is not called.
NoPolicy(st) ==
    [storage |-> st, ran |-> FALSE, swept |-> FALSE, afterSweep |-> st]

\* handleMaxCapacity with the test of the size reversed.
handleMaxCapacity_ReversedTest(st, t) ==
    LET swept == Len(st) <= maxItems
        s1 == IF swept THEN cleanup(st, t) ELSE st
        s2 == IF Len(s1) <= maxItems THEN MapDelete(s1, lruKey(s1)) ELSE s1
    IN  [storage |-> s2, ran |-> TRUE, swept |-> swept, afterSweep |-> s1]

\* handleMaxCapacity sweeping whatever the size.
handleMaxCapacity_AlwaysSweeps(st, t) ==
    LET s1 == cleanup(st, t)
        s2 == IF Len(s1) >= maxItems THEN MapDelete(s1, lruKey(s1)) ELSE s1
    IN  [storage |-> s2, ran |-> TRUE, swept |-> TRUE, afterSweep |-> s1]

\* handleMaxCapacity (lines 201-207): the Map it leaves, whether it swept,
\* and the Map between its two statements.
handleMaxCapacity(st, t) ==
    LET swept == Len(st) >= maxItems
        s1 == IF swept THEN cleanup(st, t) ELSE st
        s2 == IF Len(s1) >= maxItems THEN MapDelete(s1, lruKey(s1)) ELSE s1
    IN  [storage |-> s2, ran |-> TRUE, swept |-> swept, afterSweep |-> s1]

----------------------------------------------------------------------------
(* The public methods: the Map each leaves, what it returns, and what the   *)
(* capacity policy did on its behalf.                                       *)

Thrown(st) ==
    [storage |-> st, policy |-> NoPolicy(st),
     result |-> [status |-> "TypeError", key |-> undefined, data |-> undefinedData]]

Failure(st) ==
    [storage |-> st, policy |-> NoPolicy(st),
     result |-> [status |-> "failure", key |-> undefined, data |-> undefinedData]]

\* The three statements that end add, update and upsert.
Write(policy, key, value, t) ==
    LET data == buildData(value, t)
    IN  [storage |-> MapSet(policy.storage, key.repr, data), policy |-> policy,
         result |-> [status |-> "success", key |-> key.repr, data |-> data]]

\* add without the test for a key that is present.
add_NoHasTest(st, key, value, t) ==
    IF validateKey(key) THEN Thrown(st)
    ELSE Write(handleMaxCapacity(st, t), key, value, t)

\* add (lines 216-224)
add(st, key, value, t) ==
    IF validateKey(key) THEN Thrown(st)
    ELSE IF MapHas(st, key.repr) THEN Failure(st)
    ELSE Write(handleMaxCapacity(st, t), key, value, t)

\* update writing only when the capacity policy has left the key in the Map.
update_WritesOnlyIfKept(st, key, value, t) ==
    IF validateKey(key) THEN Thrown(st)
    ELSE IF ~MapHas(st, key.repr) THEN Failure(st)
    ELSE IF MapHas(handleMaxCapacity(st, t).storage, key.repr)
         THEN Write(handleMaxCapacity(st, t), key, value, t)
         ELSE [Failure(handleMaxCapacity(st, t).storage)
                   EXCEPT !.policy = handleMaxCapacity(st, t)]

\* update running the capacity policy before the test for an absent key.
update_PolicyFirst(st, key, value, t) ==
    IF validateKey(key) THEN Thrown(st)
    ELSE IF ~MapHas(st, key.repr)
         THEN [Failure(handleMaxCapacity(st, t).storage)
                   EXCEPT !.policy = handleMaxCapacity(st, t)]
         ELSE Write(handleMaxCapacity(st, t), key, value, t)

\* update (lines 233-247)
update(st, key, value, t) ==
    IF validateKey(key) THEN Thrown(st)
    ELSE IF ~MapHas(st, key.repr) THEN Failure(st)
    ELSE Write(handleMaxCapacity(st, t), key, value, t)

\* upsert leaving the entry of a key that is present as it is.
upsert_KeepsExisting(st, key, value, t) ==
    IF validateKey(key) THEN Thrown(st)
    ELSE IF MapHas(st, key.repr)
         THEN [storage |-> st, policy |-> NoPolicy(st),
               result |-> [status |-> "success", key |-> key.repr,
                           data |-> MapGet(st, key.repr)]]
         ELSE Write(handleMaxCapacity(st, t), key, value, t)

\* upsert (lines 256-269)
upsert(st, key, value, t) ==
    IF validateKey(key) THEN Thrown(st)
    ELSE Write(IF ~MapHas(st, key.repr) THEN handleMaxCapacity(st, t)
               ELSE NoPolicy(st),
               key, value, t)

\* get deleting the entry it finds expired.
get_DropsExpired(st, key) ==
    IF validateKey(key) THEN Thrown(st)
    ELSE IF MapHas(st, key.repr) /\ MapGet(st, key.repr).expireAt <= now
         THEN [storage |-> MapDelete(st, key.repr), policy |-> NoPolicy(st),
               result |-> [status |-> "undefined", key |-> undefined,
                           data |-> undefinedData]]
         ELSE [storage |-> st, policy |-> NoPolicy(st),
               result |-> [status |-> IF MapHas(st, key.repr) THEN "found"
                                      ELSE "undefined",
                           key |-> undefined, data |-> MapGet(st, key.repr)]]

\* get (lines 277-281)
get(st, key) ==
    IF validateKey(key) THEN Thrown(st)
    ELSE [storage |-> st, policy |-> NoPolicy(st),
          result |-> [status |-> IF MapHas(st, key.repr) THEN "found" ELSE "undefined",
                      key |-> undefined, data |-> MapGet(st, key.repr)]]

\* delete returning true whether or not the key was present.
delete_AlwaysTrue(st, key) ==
    IF validateKey(key) THEN Thrown(st)
    ELSE [storage |-> MapDelete(st, key.repr), policy |-> NoPolicy(st),
          result |-> [status |-> "true", key |-> undefined, data |-> undefinedData]]

\* delete (lines 288-291)
delete(st, key) ==
    IF validateKey(key) THEN Thrown(st)
    ELSE [storage |-> MapDelete(st, key.repr), policy |-> NoPolicy(st),
          result |-> [status |-> IF MapHas(st, key.repr) THEN "true" ELSE "false",
                      key |-> undefined, data |-> undefinedData]]

\* clear removing only what a sweep removes.
clear_Sweeps(st) ==
    [storage |-> cleanup(st, now), policy |-> NoPolicy(cleanup(st, now)),
     result |-> [status |-> "void", key |-> undefined, data |-> undefinedData]]

\* clear (lines 296-298)
clear(st) ==
    [storage |-> <<>>, policy |-> NoPolicy(<<>>),
     result |-> [status |-> "void", key |-> undefined, data |-> undefinedData]]

\* generateKey (lines 312-314), for the buffer randomBytes returned.
generateKey(buf) == toStringHex(buf)

\* What the successive calls of generateKey return, for each stream of
\* random buffers.
RECURSIVE generateKeys(_)
generateKeys(stream) ==
    IF stream = <<>> THEN <<>>
    ELSE <<generateKey(Head(stream))>> \o generateKeys(Tail(stream))

KeyStreams == {generateKeys(stream) : stream \in RandomStreams}

\* The loop of getUniqueKey with one retry less.
RECURSIVE getUniqueKeyLoop_OneRetryLess(_, _, _, _)
getUniqueKeyLoop_OneRetryLess(st, keys, retryCount, generated) ==
    LET key == keys[retryCount + 1]
    IN  IF ~MapHas(st, key) THEN Append(generated, key)
        ELSE IF retryCount + 1 < maxRetries
             THEN getUniqueKeyLoop_OneRetryLess(st, keys, retryCount + 1,
                                                Append(generated, key))
             ELSE Append(generated, key)

\* The do-while loop of getUniqueKey (lines 326-329): the keys it generated,
\* the last of which is the value of key when the loop ends.
RECURSIVE getUniqueKeyLoop(_, _, _, _)
getUniqueKeyLoop(st, keys, retryCount, generated) ==
    LET key == keys[retryCount + 1]
    IN  IF ~MapHas(st, key) THEN Append(generated, key)
        ELSE IF retryCount + 1 <= maxRetries
             THEN getUniqueKeyLoop(st, keys, retryCount + 1, Append(generated, key))
             ELSE Append(generated, key)

\* getUniqueKey returning the first key it generates.
getUniqueKey_NoHasTest(st, keys) ==
    [storage |-> st, policy |-> NoPolicy(st), generated |-> <<keys[1]>>,
     result |-> [status |-> "returned", key |-> keys[1],
                 data |-> undefinedData]]

\* getUniqueKey (lines 321-332), where generateKey returns keys[1], keys[2],
\* and so on.
getUniqueKey(st, keys) ==
    LET generated == getUniqueKeyLoop(st, keys, 0, <<>>)
    IN  [storage |-> st, policy |-> NoPolicy(st), generated |-> generated,
         result |-> [status |-> "returned", key |-> generated[Len(generated)],
                     data |-> undefinedData]]

\* The getters maxItems, expireMs and size (lines 120-132).
Getters == {"maxItems", "expireMs", "size"}

getter(name) ==
    CASE name = "maxItems" -> maxItems
      [] name = "expireMs" -> expireMs
      [] name = "size"     -> Len(storage)

----------------------------------------------------------------------------
(* The state machine *)

NoKey == [type |-> "undefined", repr |-> undefined]
NoValue == [type |-> "undefined", payload |-> 0]

\* The history of one step: the name and arguments of the call, the clock
\* it read, the Map before it, what it returned, whether the capacity policy
\* ran, whether a sweep ran, and the Map after the sweep and after the policy.
Called(name, key, value, r) ==
    [name |-> name, key |-> key, value |-> value, at |-> now, pre |-> storage,
     result |-> r.result, policyRan |-> r.policy.ran, sweepRan |-> r.policy.swept,
     afterSweep |-> r.policy.afterSweep, afterPolicy |-> r.policy.storage,
     generated |-> <<>>, number |-> NaN]

\* What a step that calls no method of the Map returns.
Void(st, swept) ==
    [storage |-> st, policy |-> [NoPolicy(st) EXCEPT !.swept = swept],
     result |-> [status |-> "void", key |-> undefined, data |-> undefinedData]]

\* A call of a public method that returned r.
Call(name, key, value, r) ==
    /\ storage' = r.storage
    /\ last' = Called(name, key, value, r)
    /\ UNCHANGED <<maxItems, expireMs, cleanupInterval, nextSweepAt, now>>

\* adds: the keys of the successful adds since construction, as long as adds
\* are all that was called, all succeeded, and they are at most ScenarioLen.
Poisoned == [clean |-> FALSE, keys |-> <<>>]

\* The constructor (lines 102-117), for the stores of M.
Constructed(M) ==
    /\ storage = <<>>
    /\ maxItems \in M
    /\ expireMs \in ExpireMsChoices
    /\ cleanupInterval = TRUE
    /\ now = 0
    /\ nextSweepAt = now + cleanupIntervalMs
    /\ last = Called("constructor", NoKey, NoValue, Void(<<>>, FALSE))
    /\ adds = [clean |-> TRUE, keys |-> <<>>]

Init == Constructed(MaxItemsChoices)

Add(key, value) ==
    LET r == add(storage, key, value, now)
    IN  /\ Call("add", key, value, r)
        /\ adds' = IF adds.clean /\ r.result.status = "success"
                        /\ Len(adds.keys) < ScenarioLen
                   THEN [adds EXCEPT !.keys = Append(@, key.repr)]
                   ELSE Poisoned

Update(key, value) ==
    /\ Call("update", key, value, update(storage, key, value, now))
    /\ adds' = Poisoned

Upsert(key, value) ==
    /\ Call("upsert", key, value, upsert(storage, key, value, now))
    /\ adds' = Poisoned

Get(key) ==
    /\ Call("get", key, NoValue, get(storage, key))
    /\ adds' = Poisoned

Delete(key) ==
    /\ Call("delete", key, NoValue, delete(storage, key))
    /\ adds' = Poisoned

Clear ==
    /\ Call("clear", NoKey, NoValue, clear(storage))
    /\ adds' = Poisoned

GetUniqueKey(keys) ==
    \E r \in {getUniqueKey(storage, keys)} :
        /\ storage' = r.storage
        /\ last' = [Called("getUniqueKey", NoKey, NoValue, r)
                        EXCEPT !.generated = r.generated]
        /\ adds' = Poisoned
        /\ UNCHANGED <<maxItems, expireMs, cleanupInterval, nextSweepAt, now>>

\* A read of one of the getters.
Getter(name) ==
    /\ last' = [Called(name, NoKey, NoValue, Void(storage, FALSE))
                    EXCEPT !.number = getter(name)]
    /\ adds' = Poisoned
    /\ UNCHANGED <<storage, maxItems, expireMs, cleanupInterval, nextSweepAt, now>>

\* stopCleanup leaving the timer set.
StopCleanup_ClearsNothing ==
    /\ cleanupInterval' = cleanupInterval
    /\ last' = Called("stopCleanup", NoKey, NoValue, Void(storage, FALSE))
    /\ adds' = Poisoned
    /\ UNCHANGED <<storage, maxItems, expireMs, nextSweepAt, now>>

\* stopCleanup (lines 303-305)
StopCleanup ==
    /\ cleanupInterval' = FALSE
    /\ last' = Called("stopCleanup", NoKey, NoValue, Void(storage, FALSE))
    /\ adds' = Poisoned
    /\ UNCHANGED <<storage, maxItems, expireMs, nextSweepAt, now>>

\* The callback releasing the timer when its sweep leaves the Map empty.
Tick_ReleasedWhenEmpty ==
    /\ cleanupInterval
    /\ now >= nextSweepAt
    /\ storage' = cleanup(storage, now)
    /\ nextSweepAt' = now + cleanupIntervalMs
    /\ cleanupInterval' = (storage' # <<>>)
    /\ last' = Called("tick", NoKey, NoValue, Void(storage', TRUE))
    /\ adds' = Poisoned
    /\ UNCHANGED <<maxItems, expireMs, now>>

\* The callback of setInterval (lines 113-116): due cleanupIntervalMs after
\* the construction and after each of its runs, while the timer is set; it
\* runs cleanup.
Tick ==
    /\ cleanupInterval
    /\ now >= nextSweepAt
    /\ storage' = cleanup(storage, now)
    /\ nextSweepAt' = now + cleanupIntervalMs
    /\ last' = Called("tick", NoKey, NoValue, Void(storage', TRUE))
    /\ adds' = Poisoned
    /\ UNCHANGED <<maxItems, expireMs, cleanupInterval, now>>

\* The clock advances between two steps.
Advance ==
    /\ now < MaxTime
    /\ \E d \in 1..(MaxTime - now) : now' = now + d
    /\ last' = [Called("advance", NoKey, NoValue, Void(storage, FALSE))
                    EXCEPT !.at = now']
    /\ UNCHANGED <<storage, maxItems, expireMs, cleanupInterval, nextSweepAt, adds>>

Next ==
    \/ \E key \in KeyArgs(StringKeys), value \in Values : Add(key, value)
    \/ \E key \in KeyArgs(StringKeys), value \in Values : Update(key, value)
    \/ \E key \in KeyArgs(StringKeys), value \in Values : Upsert(key, value)
    \/ \E key \in KeyArgs(StringKeys) : Get(key)
    \/ \E key \in KeyArgs(StringKeys) : Delete(key)
    \/ Clear
    \/ StopCleanup
    \/ Tick
    \/ Advance

Spec == Init /\ [][Next]_vars

\* The scenario of the three adds: a store of maxItems = 2 to which entries
\* are only added, under three keys, while the clock and the timer run.
InitScenario == Constructed({2})

NextScenario ==
    \/ \E key \in KeyArgs(ScenarioKeys), value \in Values : Add(key, value)
    \/ Tick
    \/ Advance

SpecScenario == InitScenario /\ [][NextScenario]_vars

\* The methods that read: get, getUniqueKey and the getters, on the stores
\* of maxItems = 2 that upsert, the timer and the clock make.
InitReads == Constructed({2})

NextReads ==
    \/ \E key \in KeyArgs(StringKeys), value \in Values : Upsert(key, value)
    \/ \E key \in KeyArgs(StringKeys) : Get(key)
    \/ \E keys \in KeyStreams : GetUniqueKey(keys)
    \/ \E name \in Getters : Getter(name)
    \/ StopCleanup
    \/ Tick
    \/ Advance

SpecReads == InitReads /\ [][NextReads]_vars

\* The store while its timer runs: every operation on one string key and on
\* a key that is no string, on a store of maxItems = 1.  setInterval runs the
\* callback once it is due (the event loop is never blocked: every method
\* returns), and the clock keeps advancing up to MaxTime.
TimerKeys == {"0000000a"}

InitTimer == Constructed({1})

NextTimer ==
    \/ \E key \in KeyArgs(TimerKeys), value \in Values : Add(key, value)
    \/ \E key \in KeyArgs(TimerKeys), value \in Values : Update(key, value)
    \/ \E key \in KeyArgs(TimerKeys), value \in Values : Upsert(key, value)
    \/ \E key \in KeyArgs(TimerKeys) : Get(key)
    \/ \E key \in KeyArgs(TimerKeys) : Delete(key)
    \/ Clear
    \/ StopCleanup
    \/ Tick
    \/ Advance

SpecTimer ==
    InitTimer /\ [][NextTimer]_vars /\ WF_vars(Tick) /\ WF_vars(Advance)

----------------------------------------------------------------------------
(* The claims *)

\* The last step was a call of the method name with a string key.
CalledWithString(name) == last.name = name /\ last.key.type = "string"

\* The entries of a Map.
Entries(st) == {st[i] : i \in 1..Len(st)}

\* st without its i-th entry.
Without(st, i) == SubSeq(st, 1, i - 1) \o SubSeq(st, i + 1, Len(st))

\* C1: in a store constructed with maxItems, size <= maxItems in every
\* reachable state (a store without maxItems has maxItems = Infinity).
C1_SizeWithinMaxItems == Len(storage) <= maxItems

\* C2: a sweep, run by the timer or by the capacity policy, leaves every
\* entry whose expireAt is after the current time in the Map, unchanged.
C2_SweepKeepsUnexpired ==
    last.sweepRan =>
        \A e \in Entries(last.pre) :
            e.data.expireAt > last.at => e \in Entries(last.afterSweep)

\* C3: right after a sweep run at time t, no entry with expireAt <= t is in
\* the Map.
C3_SweepRemovesExpired ==
    last.sweepRan =>
        \A e \in Entries(last.afterSweep) : ~(e.data.expireAt <= last.at)

\* C4: with maxItems = 2, after add('a'), add('b'), add('c') have succeeded
\* in this order, with nothing called in between and no entry expired, the
\* Map holds b and c and not a, and its size is 2.
C4_ThreeAddsKeepBAndC ==
    ( /\ last.name = "add"
      /\ adds.clean
      /\ adds.keys = <<"a", "b", "c">>
      /\ maxItems = 2
      /\ \A e \in Entries(last.pre) : e.data.expireAt > last.at )
    => ( /\ Len(storage) = 2
         /\ MapKeys(storage) = {"b", "c"} )

\* C5: when the capacity policy finds size >= maxItems after its sweep, it
\* removes exactly one entry, the first of those whose expireAt is the least
\* among the entries the sweep left.
C5_EvictsEarliestExpireAt ==
    (last.policyRan /\ Len(last.afterSweep) >= maxItems) =>
        \E i \in 1..Len(last.afterSweep) :
            /\ last.afterPolicy = Without(last.afterSweep, i)
            /\ \A j \in 1..Len(last.afterSweep) :
                   last.afterSweep[i].data.expireAt <= last.afterSweep[j].data.expireAt
            /\ \A j \in 1..(i - 1) :
                   last.afterSweep[i].data.expireAt < last.afterSweep[j].data.expireAt

\* add was called with a string key that was absent.
AddedAbsent == CalledWithString("add") /\ ~MapHas(last.pre, last.key.repr)

\* C6: add(k, v) of an absent string key k at time t returns success with
\* key k, and then the Map holds under k the entry add returned, with value
\* v, expireAt = t + expireMs and updateAt = t.
C6_AddStoresStampedEntry ==
    AddedAbsent =>
        /\ last.result.status = "success"
        /\ last.result.key = last.key.repr
        /\ MapHas(storage, last.key.repr)
        /\ MapGet(storage, last.key.repr) = last.result.data
        /\ last.result.data.value = last.value
        /\ last.result.data.expireAt = last.at + expireMs
        /\ last.result.data.updateAt = last.at

\* C6's case: an absent key added to a store that is at its capacity, after
\* the clock has advanced.
C6_Witness ==
    /\ AddedAbsent
    /\ Len(last.pre) >= maxItems
    /\ last.at > 0

\* C7 as stated: add(k, v) of an absent string key leaves size one greater
\* than it was, in every reachable state.
C7_AddGrowsSizeByOne ==
    AddedAbsent => Len(storage) = Len(last.pre) + 1

\* C7 as amended: add(k, v) of an absent string key to a store whose size is
\* below maxItems leaves size one greater than it was.
C7_AddBelowCapacityGrowsSizeByOne ==
    (AddedAbsent /\ Len(last.pre) < maxItems) => Len(storage) = Len(last.pre) + 1

\* C7's case: an absent key added below the capacity to a store that holds
\* an entry that has not expired.
C7_Witness ==
    /\ AddedAbsent
    /\ Len(last.pre) < maxItems
    /\ \E e \in Entries(last.pre) : e.data.expireAt > last.at

\* C8: add(k, v) of a key that is present returns {success: false} and
\* leaves the whole Map as it was, also at capacity.
C8_AddPresentChangesNothing ==
    (CalledWithString("add") /\ MapHas(last.pre, last.key.repr)) =>
        /\ last.result.status = "failure"
        /\ storage = last.pre
        /\ ~last.policyRan

\* C8's case: add of a key that is present, with another value than the one
\* stored, in a store at its capacity.
C8_Witness ==
    /\ CalledWithString("add")
    /\ MapHas(last.pre, last.key.repr)
    /\ MapGet(last.pre, last.key.repr).value # last.value
    /\ MapGet(last.pre, last.key.repr).updateAt < last.at
    /\ Len(last.pre) >= maxItems

\* C9: update(k, v) of a key that is absent returns {success: false},
\* creates no entry and leaves the whole Map as it was: neither the sweep
\* nor the eviction runs, also at capacity.
C9_UpdateAbsentChangesNothing ==
    (CalledWithString("update") /\ ~MapHas(last.pre, last.key.repr)) =>
        /\ last.result.status = "failure"
        /\ storage = last.pre
        /\ ~MapHas(storage, last.key.repr)
        /\ ~last.policyRan
        /\ ~last.sweepRan

\* C9's case: update of an absent key in a store at its capacity that holds
\* an entry a sweep would delete.
C9_Witness ==
    /\ CalledWithString("update")
    /\ ~MapHas(last.pre, last.key.repr)
    /\ Len(last.pre) >= maxItems
    /\ cleanup(last.pre, last.at) # last.pre

\* C10: upsert(k, v) with a string key returns success whether k was absent
\* or present, and then the Map holds under k the entry with value v,
\* expireAt = now + expireMs and updateAt = now.
C10_UpsertWritesStampedEntry ==
    CalledWithString("upsert") =>
        /\ last.result.status = "success"
        /\ last.result.key = last.key.repr
        /\ MapHas(storage, last.key.repr)
        /\ MapGet(storage, last.key.repr) = last.result.data
        /\ last.result.data.value = last.value
        /\ last.result.data.expireAt = last.at + expireMs
        /\ last.result.data.updateAt = last.at

\* C10's case: upsert of a key that is present with older timestamps and
\* another value.
C10_Witness ==
    /\ CalledWithString("upsert")
    /\ MapHas(last.pre, last.key.repr)
    /\ MapGet(last.pre, last.key.repr).updateAt < last.at
    /\ MapGet(last.pre, last.key.repr).value # last.value

\* The entries of st under other keys than k.
Others(st, k) == {e \in Entries(st) : e.key # k}

\* C11: delete(k) returns true exactly when k was present; then k is absent
\* and size is one less, otherwise size is unchanged; every entry under
\* another key is left as it was.
C11_DeleteRemovesOnlyKey ==
    CalledWithString("delete") =>
        /\ last.result.status \in {"true", "false"}
        /\ (last.result.status = "true") <=> MapHas(last.pre, last.key.repr)
        /\ ~MapHas(storage, last.key.repr)
        /\ Len(storage) = Len(last.pre)
                - (IF MapHas(last.pre, last.key.repr) THEN 1 ELSE 0)
        /\ Others(storage, last.key.repr) = Others(last.pre, last.key.repr)

\* C11's case: delete of a key that was present beside another entry.
C11_Witness ==
    /\ CalledWithString("delete")
    /\ MapHas(last.pre, last.key.repr)
    /\ Len(last.pre) = 2

\* C11's other case: delete of an absent key from a Map that is not empty.
C11_WitnessAbsent ==
    /\ CalledWithString("delete")
    /\ ~MapHas(last.pre, last.key.repr)
    /\ Len(last.pre) >= 1

\* The methods that take a key.
KeyedMethods == {"add", "update", "upsert", "get", "delete"}

\* C12: add, update, upsert, get and delete called with a key that is not a
\* string raise the TypeError and leave the Map as it was: no lookup, sweep,
\* eviction or write happens, also at capacity.
C12_NonStringKeyThrows ==
    (last.name \in KeyedMethods /\ last.key.type # "string") =>
        /\ last.result.status = "TypeError"
        /\ storage = last.pre
        /\ ~last.policyRan
        /\ ~last.sweepRan

\* C12's case: upsert with a number as key on a store at its capacity that
\* holds an entry a sweep would delete.
C12_Witness ==
    /\ last.name = "upsert"
    /\ last.key.type = "number"
    /\ Len(last.pre) >= maxItems
    /\ cleanup(last.pre, last.at) # last.pre

\* C14: update and upsert of a key that is present do not run the capacity
\* policy: they remove or alter no entry under another key, also when
\* size >= maxItems.
C14_PresentKeySkipsPolicy ==
    ( /\ last.name \in {"update", "upsert"}
      /\ last.key.type = "string"
      /\ MapHas(last.pre, last.key.repr) )
    => ( /\ ~last.policyRan
         /\ Others(storage, last.key.repr) = Others(last.pre, last.key.repr) )

\* C17: clear() leaves the Map empty, whatever it held.
C17_ClearEmpties ==
    last.name = "clear" => Len(storage) = 0

\* C17's case: clear of a store above its capacity that holds an expired
\* entry and one that has not expired.
C17_Witness ==
    /\ last.name = "clear"
    /\ Len(last.pre) > maxItems
    /\ \E e \in Entries(last.pre) : e.data.expireAt <= last.at
    /\ \E e \in Entries(last.pre) : e.data.expireAt > last.at

\* update was called with a string key that was present.
UpdatedPresent == CalledWithString("update") /\ MapHas(last.pre, last.key.repr)

\* C18: update(k, v) of a key that is present returns success, and then the
\* Map holds under k the entry with value v, expireAt = now + expireMs and
\* updateAt = now, also when the capacity policy update consults has removed
\* k before the write.
C18_UpdateWritesStampedEntry ==
    UpdatedPresent =>
        /\ last.result.status = "success"
        /\ last.result.key = last.key.repr
        /\ MapHas(storage, last.key.repr)
        /\ MapGet(storage, last.key.repr) = last.result.data
        /\ last.result.data.value = last.value
        /\ last.result.data.expireAt = last.at + expireMs
        /\ last.result.data.updateAt = last.at

\* C18's case: update of a key the capacity policy removed before the write.
C18_Witness ==
    /\ UpdatedPresent
    /\ last.policyRan
    /\ ~MapHas(last.afterPolicy, last.key.repr)
    /\ MapGet(last.pre, last.key.repr).value # last.value

\* C19: below the capacity (always so without maxItems) add, update and
\* upsert run neither the sweep nor the eviction: no entry is removed and no
\* entry under another key than the one written is altered.
C19_BelowCapacityNoPolicyEffect ==
    ( /\ last.name \in {"add", "update", "upsert"}
      /\ last.key.type = "string"
      /\ Len(last.pre) < maxItems )
    => ( /\ ~last.sweepRan
         /\ last.afterSweep = last.pre
         /\ last.afterPolicy = last.pre
         /\ Others(storage, last.key.repr) = Others(last.pre, last.key.repr)
         /\ MapKeys(last.pre) \subseteq MapKeys(storage) )

\* C19's case: a successful write of another key to a store without
\* maxItems that holds an expired entry.
C19_Witness ==
    /\ last.name \in {"add", "upsert"}
    /\ last.key.type = "string"
    /\ maxItems = Infinity
    /\ last.result.status = "success"
    /\ \E e \in Others(last.pre, last.key.repr) : e.data.expireAt <= last.at

\* C19's other case: a write below a finite capacity to a store that holds
\* an entry that has not expired.
C19_WitnessFinite ==
    /\ last.name = "update"
    /\ last.result.status = "success"
    /\ Len(last.pre) < maxItems
    /\ maxItems # Infinity
    /\ \E e \in Entries(last.pre) : e.data.expireAt > last.at

----------------------------------------------------------------------------
(* The read-only operations, stopCleanup and getUniqueKey *)

ReadOnly == {"get", "getUniqueKey", "size", "maxItems", "expireMs"}

\* What get(k) of a string k returned, against the Map st: the stored entry
\* of k when k is present, undefined when it is not.
GetReturned(st, k, result) ==
    IF MapHas(st, k)
    THEN /\ result.status = "found"
         /\ \E e \in Entries(st) : e.key = k /\ e.data = result.data
    ELSE /\ result.status = "undefined"
         /\ result.data = undefinedData

\* C13: a step of get, getUniqueKey, size, maxItems or expireMs leaves the
\* Map (its entries, their stamps and their order), the configuration and
\* the timer as they were, and get(k) of a string k returns the stored entry
\* of k if k is present and undefined otherwise.
C13_ReadsChangeNothing ==
    [][ last'.name \in ReadOnly
        => ( /\ UNCHANGED <<storage, maxItems, expireMs, cleanupInterval,
                           nextSweepAt, now>>
             /\ last'.pre = storage
             /\ (last'.name = "get" /\ last'.key.type = "string")
                    => GetReturned(storage, last'.key.repr, last'.result) ) ]_vars

\* C13's case: get has returned an entry whose expireAt has passed, on a
\* store whose timer is set, and the entry is still there.
C13_Witness ==
    /\ CalledWithString("get")
    /\ last.result.status = "found"
    /\ last.result.data.expireAt <= last.at
    /\ cleanupInterval
    /\ MapHas(storage, last.key.repr)

\* C15: once stopCleanup has been called the timer stays cleared and no step
\* is a run of the timer's callback; stopCleanup changes no entry, and a
\* call of it on a store whose timer is cleared changes nothing.
C15_NoSweepAfterStopCleanup ==
    [][ /\ ~cleanupInterval => (~cleanupInterval' /\ last'.name # "tick")
        /\ last'.name = "stopCleanup"
               => ( /\ ~cleanupInterval'
                    /\ UNCHANGED <<storage, maxItems, expireMs, nextSweepAt, now>>
                    /\ ~cleanupInterval => UNCHANGED cleanupInterval ) ]_vars

\* C15's case: the timer was cleared, another operation followed, and the
\* callback is due on a Map that a sweep would change.
C15_Witness ==
    /\ ~cleanupInterval
    /\ last.name \notin {"stopCleanup", "constructor"}
    /\ now >= nextSweepAt
    /\ cleanup(storage, now) # storage

\* C16: the key getUniqueKey returns is not a key of the Map, unless it
\* generated maxRetries + 1 keys and each of them is a key of the Map.
C16_UniqueUnlessAllCollide ==
    last.name = "getUniqueKey"
    => ( MapHas(storage, last.result.key)
         => ( /\ Len(last.generated) = maxRetries + 1
              /\ \A i \in 1..Len(last.generated) :
                     MapHas(storage, last.generated[i]) ) )

\* C16's case: getUniqueKey generated a key of the Map, retried, and
\* returned a key that is not in the Map.
C16_Witness ==
    /\ last.name = "getUniqueKey"
    /\ Len(last.generated) > 1
    /\ MapHas(storage, last.generated[1])
    /\ ~MapHas(storage, last.result.key)

----------------------------------------------------------------------------
(* The stamps of the stored entries *)

\* C22: every entry of the Map has expireAt = updateAt + expireMs, after
\* every operation.
C22_ExpireAtIsUpdateAtPlusExpireMs ==
    \A e \in Entries(storage) : e.data.expireAt = e.data.updateAt + expireMs

\* C22's case: an entry written at an earlier reading of the clock is still
\* in the Map after an operation that did not write it.
C22_Witness ==
    /\ \/ last.name = "tick"
       \/ /\ last.name \in {"get", "delete", "add", "update", "upsert"}
          /\ last.key.type = "string"
          /\ last.result.status \in {"success", "found"}
    /\ \E e \in Entries(storage) :
           /\ e.data.updateAt < last.at
           /\ (last.key.type = "string" => e.key # last.key.repr)

----------------------------------------------------------------------------
(* The timer *)

\* C21: no step but stopCleanup clears the timer, and while the timer is
\* set and the clock keeps advancing, the sweep that is due at t (t within
\* MaxTime) eventually runs, unless stopCleanup is called first.
C21_TimerRunsUntilStopped ==
    /\ [][ (cleanupInterval /\ last'.name # "stopCleanup")
           => cleanupInterval' ]_vars
    /\ \A t \in 1..MaxTime :
           (cleanupInterval /\ nextSweepAt = t)
               ~> (~cleanupInterval \/ (last.name = "tick" /\ nextSweepAt > t))

\* C21's case: a run of the callback has emptied the Map, the timer is
\* still set, and its next run is due within MaxTime.
C21_Witness ==
    /\ last.name = "tick"
    /\ last.pre # <<>>
    /\ storage = <<>>
    /\ cleanupInterval
    /\ nextSweepAt \in 1..MaxTime

====
